---- MODULE Spec2Model ----
(***************************************************************************)
(* A model of cinolib's two voxelize functions                             *)
(* (src/include/cinolib/voxelize.cpp).                                     *)
(*                                                                         *)
(* One behaviour is one call of voxelize: the grid setup, the parallel     *)
(* classification pass (one action per work item, in any order), and, for  *)
(* the mesh variant, the flood-fill of the outside and the residual pass.  *)
(* The mesh, the octree and the box-triangle predicate are collaborators:  *)
(* what they answer for a voxel is an input of that voxel's work item.     *)
(* The implicit function f is an input too: its value at a corner is drawn *)
(* from the four classes of double the code's comparisons tell apart.      *)
(***************************************************************************)
EXTENDS Integers, Sequences, FiniteSets, TLC

(***************************************************************************)
(* Bounds of the exploration.                                              *)
(***************************************************************************)
\* the bounding box extents (bbox.delta()) range over 0..MaxExtent per axis
MaxExtent == 2
\* max_voxels_per_side ranges over 0..MaxRes
MaxRes == 2
\* mesh grids of more than MaxVoxels voxels are not explored
MaxVoxels == 8
\* implicit-function grids of more than MaxImplicitVoxels voxels are not explored
MaxImplicitVoxels == 2
\* the broad phase returns at most MaxCand candidate elements for a voxel
MaxCand == 1
\* from_hexahedra_to_general_polyhedra is given at most MaxHexa hexahedra
MaxHexa == 2
\* the hexahedra are cells of a column of MaxCubes stacked cubes
MaxCubes == 2
\* vertex ids are taken as they are or modulo 2 .. MaxFold
MaxFold == 3

VARIABLES
    variant,              \* which overload runs: "mesh" or "implicit"
    bbox_delta,           \* g.bbox.delta(): the extents of the bounding box, <<x, y, z>>
    max_voxels_per_side,  \* the resolution argument
    len,                  \* g.len, kept as the exact fraction num / den
    dim,                  \* g.dim, <<dim[0], dim[1], dim[2]>> of the code
    size,                 \* uint size
    allocated,            \* whether new int[size] was executed
    voxels,               \* g.voxels, indexed 0 .. size-1
    todo,                 \* work items of the PARALLEL_FOR that have not run yet
    flood_seed,           \* int flood_seed
    q,                    \* std::queue<uint> q
    assert_ok,            \* FALSE once the assert of the flood-fill loop has failed
    cur,                  \* implicit variant: index of the work item in progress (-1: none)
    off,                  \* implicit variant: corner counter of the work item
    positive,             \* implicit variant: the three flags of the work item
    negative,
    zero,
    samples,              \* implicit variant: how often f returned each class for cur
    log,                  \* what voxelize reports to its caller besides the grid
    writes,               \* history: writes[v] lists the work items that wrote g.voxels[v]
    pushed,               \* history: the indices given to q.push, in order
    pc,                   \* position in voxelize
    hexa,                 \* from_hexahedra_to_general_polyhedra: the argument hexa
    faces,                \* the output faces
    polys,                \* the output polys
    polys_face_winding,   \* the output polys_face_winding
    f_map,                \* std::map f_map: sorted face -> face id
    hid,                  \* the loop counter hid
    face_i,               \* the loop counter i of the inner loop
    p_faces,              \* the local p_faces
    p_winding,            \* the local p_winding
    hpc                   \* position in from_hexahedra_to_general_polyhedra

\* the state of a call of from_hexahedra_to_general_polyhedra
hex_vars == << hexa, faces, polys, polys_face_winding, f_map, hid, face_i,
               p_faces, p_winding, hpc >>

\* the state of a call of voxelize
voxelize_vars == << variant, bbox_delta, max_voxels_per_side, len, dim, size,
                    allocated, voxels, todo, flood_seed, q, assert_ok, cur, off,
                    positive, negative, zero, samples, log, writes, pushed, pc >>

vars == << voxelize_vars, hex_vars >>

(***************************************************************************)
(* Values.                                                                 *)
(***************************************************************************)
\* the classification tags; UNINIT is the indeterminate content of new int[size]
VOXEL_UNKNOWN == "UNKNOWN"
VOXEL_BOUNDARY == "BOUNDARY"
VOXEL_INSIDE == "INSIDE"
VOXEL_OUTSIDE == "OUTSIDE"
UNINIT == "UNINIT"

\* the classes of double that fp>0, fp<0 and fp==0 tell apart
FVal == {"neg", "zero", "pos", "nan"}

\* INT_MIN of the 32-bit int
IntMin == -2147483647 - 1

\* number of corners of a voxel sampled by the implicit variant
NCorners == 8

(***************************************************************************)
(* Grid setup (both overloads).                                            *)
(***************************************************************************)
Max2(a, b) == IF a >= b THEN a ELSE b

\* vec3d::max_entry()
max_entry(d) == Max2(d[1], Max2(d[2], d[3]))

\* g.len = g.bbox.delta().max_entry() / max_voxels_per_side, as a fraction:
\* den = 0 stands for +inf (num > 0) or NaN (num = 0)
GridLen(d, r) == [num |-> max_entry(d), den |-> r]

CeilDiv(a, b) == (a + b - 1) \div b

\* the values int(ceil(delta / g.len)) can take.  delta / len is NaN when len is
\* NaN or when both are 0; the conversion of NaN to int is undefined and yields
\* 0 or INT_MIN on the usual targets.  delta / +inf is 0.
DimOutcomes(delta, l) ==
    IF l.num = 0 THEN {0, IntMin}
    ELSE IF l.den = 0 THEN {0}
    ELSE {CeilDiv(delta * l.den, l.num)}

\* a * b in 32-bit arithmetic (mod 2^32).  A factor INT_MIN = -2^31 times an even
\* number is 0 mod 2^32; every other product of the explored grids fits 32 bits.
Mul32(a, b) ==
    IF a = 0 \/ b = 0 THEN 0
    ELSE IF a = IntMin /\ b % 2 = 0 THEN 0
    ELSE IF b = IntMin /\ a % 2 = 0 THEN 0
    ELSE a * b

\* uint size = g.dim[0]*g.dim[1]*g.dim[2]
GridSize(d) == Mul32(Mul32(d[1], d[2]), d[3])

\* the size of the grid of a call whose arguments are not degenerate
ExactSize(d, r) ==
    IF r = 0 \/ max_entry(d) = 0 THEN 0
    ELSE GridSize([a \in 1..3 |-> CeilDiv(d[a] * r, max_entry(d))])

(***************************************************************************)
(* Index arithmetic and neighbourhood (serialize_index, voxel_grid).       *)
(***************************************************************************)
\* index = i*(dim_y*dim_z) + j*dim_z + k
serialize_3D_index(i, j, k, ny, nz) == i * (ny * nz) + j * nz + k

deserialize_3D_index(index, ny, nz) ==
    << index \div (ny * nz), (index % (ny * nz)) \div nz, index % nz >>

\* the face neighbours of voxel ijk that lie inside the grid
voxel_n6(d, ijk) ==
    LET at(i, j, k) == serialize_3D_index(i, j, k, d[2], d[3])
    IN  (IF ijk[1] > 0        THEN << at(ijk[1] - 1, ijk[2], ijk[3]) >> ELSE << >>) \o
        (IF ijk[1] < d[1] - 1 THEN << at(ijk[1] + 1, ijk[2], ijk[3]) >> ELSE << >>) \o
        (IF ijk[2] > 0        THEN << at(ijk[1], ijk[2] - 1, ijk[3]) >> ELSE << >>) \o
        (IF ijk[2] < d[2] - 1 THEN << at(ijk[1], ijk[2] + 1, ijk[3]) >> ELSE << >>) \o
        (IF ijk[3] > 0        THEN << at(ijk[1], ijk[2], ijk[3] - 1) >> ELSE << >>) \o
        (IF ijk[3] < d[3] - 1 THEN << at(ijk[1], ijk[2], ijk[3] + 1) >> ELSE << >>)

Voxels == 0 .. (size - 1)

(***************************************************************************)
(* Initial state: the arguments of the call.                               *)
(***************************************************************************)
NoSamples == [v \in FVal |-> 0]

\* no call of from_hexahedra_to_general_polyhedra is made
HexIdle ==
    /\ hexa = << >>
    /\ faces = << >>
    /\ polys = << >>
    /\ polys_face_winding = << >>
    /\ f_map = << >>
    /\ hid = 0
    /\ face_i = 0
    /\ p_faces = << >>
    /\ p_winding = << >>
    /\ hpc = "idle"

Init ==
    /\ HexIdle
    /\ variant \in {"mesh", "implicit"}
    /\ bbox_delta \in [1..3 -> 0..MaxExtent]
    /\ max_voxels_per_side \in 0..MaxRes
    /\ ExactSize(bbox_delta, max_voxels_per_side)
          <= (IF variant = "mesh" THEN MaxVoxels ELSE MaxImplicitVoxels)
    /\ len = [num |-> 0, den |-> 0]
    /\ dim = << 0, 0, 0 >>
    /\ size = 0
    /\ allocated = FALSE
    /\ voxels = << >>
    /\ todo = {}
    /\ flood_seed = -1
    /\ q = << >>
    /\ assert_ok = TRUE
    /\ cur = -1
    /\ off = 0
    /\ positive = FALSE
    /\ negative = FALSE
    /\ zero = FALSE
    /\ samples = NoSamples
    /\ log = << >>
    /\ writes = << >>
    /\ pushed = << >>
    /\ pc = "start"

(***************************************************************************)
(* Grid setup and allocation.                                              *)
(***************************************************************************)
Setup ==
    /\ pc = "start"
    /\ LET l == GridLen(bbox_delta, max_voxels_per_side)
       IN  /\ len' = l
           /\ \E d0 \in DimOutcomes(bbox_delta[1], l) :
              \E d1 \in DimOutcomes(bbox_delta[2], l) :
              \E d2 \in DimOutcomes(bbox_delta[3], l) :
                 /\ dim' = << d0, d1, d2 >>
                 /\ size' = GridSize(<< d0, d1, d2 >>)
    /\ allocated' = TRUE
    /\ voxels' = [v \in 0 .. (size' - 1) |-> UNINIT]
    /\ todo' = 0 .. (size' - 1)
    /\ writes' = [v \in 0 .. (size' - 1) |-> << >>]
    /\ flood_seed' = -1
    /\ pc' = IF variant = "mesh" THEN "pass" ELSE "ipass"
    /\ UNCHANGED << variant, bbox_delta, max_voxels_per_side, q, assert_ok, cur,
                    off, positive, negative, zero, samples, log,
                    pushed >>
    /\ UNCHANGED hex_vars

(***************************************************************************)
(* Mesh variant: the parallel boundary pass.                               *)
(***************************************************************************)
\* what the body of for(uint id : elems) meets for a candidate id the octree
\* returned: the item is a triangle that intersects the voxel ("hit") or does not
\* ("miss"); o.items.at(id) throws because id has no item ("bad_id"); the item
\* is not a Triangle, so the dynamic_cast yields null and t->v dereferences it
\* ("not_triangle")
CandOutcome == {"hit", "miss", "bad_id", "not_triangle"}

\* the outcomes after which the loop over the candidates goes on
Harmless == {"hit", "miss"}

\* the narrow phase: hits[c] is the outcome for the c-th candidate
NarrowPhase(hits) == \E c \in DOMAIN hits : hits[c] = "hit"

\* the work item does not survive its narrow phase: the exception of at() or the
\* null dereference is not handled anywhere in voxelize
NarrowPhaseFails(hits) == \E c \in DOMAIN hits : hits[c] \notin Harmless

\* what the narrow phase can meet for the candidates of one voxel
CandidateRuns == UNION {[1..n -> CandOutcome] : n \in 0..MaxCand}

\* mutant: the index is decoded with (dim_x, dim_y)
DecodeIndexMut(index) == deserialize_3D_index(index, dim[1], dim[2])

\* vec3u ijk = deserialize_3D_index(index, g.dim[1], g.dim[2])
DecodeIndex(index) == deserialize_3D_index(index, dim[2], dim[3])

\* mutant: the work item writes the entry of its k coordinate
WrittenEntryMut(index, ijk) == ijk[3]

\* the entry of g.voxels the work item of index writes
WrittenEntry(index, ijk) == index

\* g.voxels[index] = (boundary) ? VOXEL_BOUNDARY : VOXEL_UNKNOWN
BoundaryTag(boundary) == IF boundary THEN VOXEL_BOUNDARY ELSE VOXEL_UNKNOWN

\* ijk[0]==0 || ijk[1]==0 || ijk[2]==0
IsShell(ijk) == ijk[1] = 0 \/ ijk[2] = 0 \/ ijk[3] = 0

\* mutant: the seed is recorded without looking at boundary
SeedCandidateMut(boundary, ijk) == IsShell(ijk)

\* the condition under which a work item writes flood_seed
SeedCandidate(boundary, ijk) == ~boundary /\ IsShell(ijk)

\* one work item of the PARALLEL_FOR.  Work items run in any order; the write of
\* flood_seed is not synchronised, so the last work item that writes it wins.
BoundaryItem(index) ==
    /\ pc = "pass"
    /\ index \in todo
    /\ \E boundary \in {NarrowPhase(hits) :
                            hits \in {h \in CandidateRuns : ~NarrowPhaseFails(h)}} :
          LET ijk   == DecodeIndex(index)
              entry == WrittenEntry(index, ijk)
          IN  /\ voxels' = [voxels EXCEPT ![entry] = BoundaryTag(boundary)]
              /\ writes' = [writes EXCEPT ![entry] = Append(@, index)]
              /\ flood_seed' = IF SeedCandidate(boundary, ijk) THEN index
                               ELSE flood_seed
    /\ todo' = todo \ {index}
    /\ UNCHANGED << variant, bbox_delta, max_voxels_per_side, len, dim, size,
                    allocated, q, assert_ok, cur, off, positive, negative, zero,
                    samples, log, pc, pushed >>
    /\ UNCHANGED hex_vars

\* a work item whose narrow phase fails: the exception leaves the work item (and
\* with it the pass and voxelize), or the null dereference ends the process; the
\* voxel of the work item is not written
BoundaryItemFails(index) ==
    /\ pc = "pass"
    /\ index \in todo
    /\ \E hits \in CandidateRuns : NarrowPhaseFails(hits)
    /\ pc' = "aborted"
    /\ UNCHANGED << variant, bbox_delta, max_voxels_per_side, len, dim, size,
                    allocated, voxels, todo, flood_seed, q, assert_ok, cur, off,
                    positive, negative, zero, samples, log, writes, pushed >>
    /\ UNCHANGED hex_vars

\* mutant: PARALLEL_FOR returns while work items have still to run
PassEndMut ==
    /\ pc = "pass"
    /\ pc' = "seedtest"
    /\ UNCHANGED << variant, bbox_delta, max_voxels_per_side, len, dim, size,
                    allocated, voxels, todo, flood_seed, q, assert_ok, cur, off,
                    positive, negative, zero, samples, log,
                    writes, pushed >>
    /\ UNCHANGED hex_vars

\* PARALLEL_FOR returns once every work item has run
PassEnd ==
    /\ pc = "pass"
    /\ todo = {}
    /\ pc' = "seedtest"
    /\ UNCHANGED << variant, bbox_delta, max_voxels_per_side, len, dim, size,
                    allocated, voxels, todo, flood_seed, q, assert_ok, cur, off,
                    positive, negative, zero, samples, log,
                    writes, pushed >>
    /\ UNCHANGED hex_vars

(***************************************************************************)
(* Mesh variant: the flood-fill of the outside.                            *)
(***************************************************************************)
\* mutant: if(flood_seed)
SeedTestMut(s) == s # 0

\* if(flood_seed>0)
SeedTest(s) == s > 0

\* mutant: if(g.voxels[nbr]!=VOXEL_OUTSIDE)
FloodableMut(tag) == tag # VOXEL_OUTSIDE

\* if(g.voxels[nbr]==VOXEL_UNKNOWN)
Floodable(tag) == tag = VOXEL_UNKNOWN

\* mutant: the seed is pushed with the tag the pass gave it
MarkSeedMut(vx, s) == vx

\* g.voxels[flood_seed]=VOXEL_OUTSIDE
MarkSeed(vx, s) == [vx EXCEPT ![s] = VOXEL_OUTSIDE]

FloodStart ==
    /\ pc = "seedtest"
    /\ SeedTest(flood_seed)
    /\ voxels' = MarkSeed(voxels, flood_seed)
    /\ q' = << flood_seed >>
    /\ pushed' = Append(pushed, flood_seed)
    /\ pc' = "flood"
    /\ UNCHANGED << variant, bbox_delta, max_voxels_per_side, len, dim, size,
                    allocated, todo, flood_seed, assert_ok, cur, off, positive,
                    negative, zero, samples, log, writes >>
    /\ UNCHANGED hex_vars

FloodSkip ==
    /\ pc = "seedtest"
    /\ ~SeedTest(flood_seed)
    /\ pc' = "residual"
    /\ UNCHANGED << variant, bbox_delta, max_voxels_per_side, len, dim, size,
                    allocated, voxels, todo, flood_seed, q, assert_ok, cur, off,
                    positive, negative, zero, samples, log,
                    writes, pushed >>
    /\ UNCHANGED hex_vars

\* mutant: the neighbour is marked but q.push(nbr) is missing
RECURSIVE VisitN6Mut(_, _, _)
VisitN6Mut(n6, vx, qq) ==
    IF n6 = << >> THEN [voxels |-> vx, q |-> qq]
    ELSE LET nbr == Head(n6)
         IN  IF vx[nbr] = VOXEL_UNKNOWN
             THEN VisitN6Mut(Tail(n6), [vx EXCEPT ![nbr] = VOXEL_OUTSIDE], qq)
             ELSE VisitN6Mut(Tail(n6), vx, qq)

\* mutant: the neighbour is pushed and its tag is left as it is
RECURSIVE VisitN6NoMark(_, _, _)
VisitN6NoMark(n6, vx, qq) ==
    IF n6 = << >> THEN [voxels |-> vx, q |-> qq]
    ELSE LET nbr == Head(n6)
         IN  IF vx[nbr] = VOXEL_UNKNOWN
             THEN VisitN6NoMark(Tail(n6), vx, Append(qq, nbr))
             ELSE VisitN6NoMark(Tail(n6), vx, qq)

\* for(auto nbr : n6): the grid and the queue after the neighbours n6 were visited
RECURSIVE VisitN6(_, _, _)
VisitN6(n6, vx, qq) ==
    IF n6 = << >> THEN [voxels |-> vx, q |-> qq]
    ELSE LET nbr == Head(n6)
         IN  IF Floodable(vx[nbr])
             THEN VisitN6(Tail(n6), [vx EXCEPT ![nbr] = VOXEL_OUTSIDE], Append(qq, nbr))
             ELSE VisitN6(Tail(n6), vx, qq)

\* mutant: q.pop() is missing
PopMut(qq) == qq

\* q.pop()
Pop(qq) == Tail(qq)

\* mutant: voxel_n6 is given a grid one voxel longer along x
NeighboursMut(ijk) == voxel_n6(<< dim[1] + 1, dim[2], dim[3] >>, ijk)

\* std::vector<uint> n6 = voxel_n6(g, ijk.ptr())
Neighbours(ijk) == voxel_n6(dim, ijk)

\* one iteration of while(!q.empty())
FloodPop ==
    /\ pc = "flood"
    /\ q # << >>
    /\ LET index == Head(q)
           ijk   == DecodeIndex(index)
           after == VisitN6(Neighbours(ijk), voxels, Pop(q))
       IN  /\ assert_ok' = (assert_ok /\ voxels[index] = VOXEL_OUTSIDE)
           /\ voxels' = after.voxels
           /\ q' = after.q
           /\ pushed' = pushed \o SubSeq(after.q, Len(Pop(q)) + 1, Len(after.q))
    /\ UNCHANGED << variant, bbox_delta, max_voxels_per_side, len, dim, size,
                    allocated, todo, flood_seed, cur, off, positive, negative,
                    zero, samples, log, pc, writes >>
    /\ UNCHANGED hex_vars

FloodEnd ==
    /\ pc = "flood"
    /\ q = << >>
    /\ pc' = "residual"
    /\ UNCHANGED << variant, bbox_delta, max_voxels_per_side, len, dim, size,
                    allocated, voxels, todo, flood_seed, q, assert_ok, cur, off,
                    positive, negative, zero, samples, log,
                    writes, pushed >>
    /\ UNCHANGED hex_vars

(***************************************************************************)
(* Mesh variant: the residual pass.                                        *)
(***************************************************************************)
\* mutant: for(uint index=1; index<size; ++index)
ResidualRangeMut(n) == 1 .. (n - 1)

\* the indices for(uint index=0; index<size; ++index) visits
ResidualRange(n) == 0 .. (n - 1)

\* mutant: if(g.voxels[index]!=VOXEL_OUTSIDE)
ResidueMut(tag) == tag # VOXEL_OUTSIDE

\* if(g.voxels[index]==VOXEL_UNKNOWN)
Residue(tag) == tag = VOXEL_UNKNOWN

Residual ==
    /\ pc = "residual"
    /\ voxels' = [v \in Voxels |->
                    IF v \in ResidualRange(size) /\ Residue(voxels[v])
                    THEN VOXEL_INSIDE ELSE voxels[v]]
    /\ pc' = "done"
    /\ UNCHANGED << variant, bbox_delta, max_voxels_per_side, len, dim, size,
                    allocated, todo, flood_seed, q, assert_ok, cur, off, positive,
                    negative, zero, samples, log,
                    writes, pushed >>
    /\ UNCHANGED hex_vars

(***************************************************************************)
(* Implicit-function variant: the parallel pass.  A work item touches only *)
(* its own locals and its own voxel, so work items are run one at a time,  *)
(* in any order; its locals stay as they were until the next one starts.   *)
(***************************************************************************)
ItemIdle == cur = -1 \/ cur \notin todo

ImplicitBegin(index) ==
    /\ pc = "ipass"
    /\ ItemIdle
    /\ index \in todo
    /\ cur' = index
    /\ off' = 0
    /\ positive' = FALSE
    /\ negative' = FALSE
    /\ zero' = FALSE
    /\ samples' = NoSamples
    /\ UNCHANGED << variant, bbox_delta, max_voxels_per_side, len, dim, size,
                    allocated, voxels, todo, flood_seed, q, assert_ok, log, pc,
                    writes, pushed >>
    /\ UNCHANGED hex_vars

\* for(uint off=0; off<8; ++off)
MoreCorners(o) == o < NCorners

\* one iteration of the corner loop: fp is the class of f(p)
ImplicitCorner ==
    /\ pc = "ipass"
    /\ ~ItemIdle
    /\ MoreCorners(off)
    /\ \E fp \in FVal :
          /\ positive' = (positive \/ fp = "pos")
          /\ negative' = (negative \/ fp = "neg")
          /\ zero' = (zero \/ fp = "zero")
          /\ samples' = [samples EXCEPT ![fp] = @ + 1]
    /\ off' = off + 1
    /\ UNCHANGED << variant, bbox_delta, max_voxels_per_side, len, dim, size,
                    allocated, voxels, todo, flood_seed, q, assert_ok, cur, log,
                    pc,
                    writes, pushed >>
    /\ UNCHANGED hex_vars

\* mutant: the zero flag is not consulted
ClassifyMut(p, n, z) ==
    IF p /\ ~n THEN VOXEL_OUTSIDE
    ELSE IF ~p /\ n THEN VOXEL_INSIDE
    ELSE VOXEL_BOUNDARY

\* the tag chosen from the three flags
Classify(p, n, z) ==
    IF p /\ ~n /\ ~z THEN VOXEL_OUTSIDE
    ELSE IF ~p /\ n /\ ~z THEN VOXEL_INSIDE
    ELSE VOXEL_BOUNDARY

ImplicitWrite ==
    /\ pc = "ipass"
    /\ ~ItemIdle
    /\ ~MoreCorners(off)
    /\ LET entry == WrittenEntry(cur, DecodeIndex(cur))
       IN  /\ voxels' = [voxels EXCEPT ![entry] = Classify(positive, negative, zero)]
           /\ writes' = [writes EXCEPT ![entry] = Append(@, cur)]
    /\ todo' = todo \ {cur}
    /\ UNCHANGED << variant, bbox_delta, max_voxels_per_side, len, dim, size,
                    allocated, flood_seed, q, assert_ok, cur, off, positive,
                    negative, zero, samples, log, pc, pushed >>
    /\ UNCHANGED hex_vars

ImplicitEnd ==
    /\ pc = "ipass"
    /\ todo = {}
    /\ pc' = "done"
    /\ UNCHANGED << variant, bbox_delta, max_voxels_per_side, len, dim, size,
                    allocated, voxels, todo, flood_seed, q, assert_ok, cur, off,
                    positive, negative, zero, samples, log,
                    writes, pushed >>
    /\ UNCHANGED hex_vars

Next ==
    \/ Setup
    \/ \E index \in Voxels : BoundaryItem(index)
    \/ \E index \in Voxels : BoundaryItemFails(index)
    \/ PassEnd
    \/ FloodStart
    \/ FloodSkip
    \/ FloodPop
    \/ FloodEnd
    \/ Residual
    \/ \E index \in Voxels : ImplicitBegin(index)
    \/ ImplicitCorner
    \/ ImplicitWrite
    \/ ImplicitEnd

Spec == Init /\ [][Next]_vars

\* the statements of the mesh variant after its parallel pass
Sequel == FloodStart \/ FloodSkip \/ FloodPop \/ FloodEnd \/ Residual

\* the thread that called voxelize keeps executing it once the pass has returned
LiveSpec == Init /\ [][Next]_vars /\ WF_vars(Sequel)

(***************************************************************************)
(* from_hexahedra_to_general_polyhedra (src/meshes/hexmesh.h).             *)
(* One behaviour is one call: the three outputs are cleared, then every    *)
(* face of every hexahedron is looked up in f_map, one face per step.      *)
(***************************************************************************)
\* static uint HEXA_FACES[6][4]
HEXA_FACES ==
    << << 0, 3, 2, 1 >>,
       << 1, 2, 6, 5 >>,
       << 4, 5, 6, 7 >>,
       << 3, 0, 4, 7 >>,
       << 0, 1, 5, 4 >>,
       << 2, 3, 7, 6 >> >>

\* vertex ids of a hexahedron in hexa
HexaVerts == 8

\* faces of a hexahedron: for(uint i=0; i<6; ++i)
HexaFaces == 6

\* uint n_hexa = hexa.size()/8
n_hexa == Len(hexa) \div HexaVerts

\* hexa.at(pos)
At(pos) == hexa[pos + 1]

\* the vector f of face fc of hexahedron h: hexa.at(base + HEXA_FACES[i][0..3])
FaceVerts(h, fc) ==
    LET base == h * HexaVerts
    IN  [c \in 1..4 |-> At(base + HEXA_FACES[fc + 1][c])]

\* sort(sorted_f.begin(), sorted_f.end())
Sorted(f) == SortSeq(f, LAMBDA a, b : a < b)

\* the arguments of the call.  A hexahedron is cell c of a column of stacked
\* cubes (cell c has the vertices 4c .. 4c+7, so neighbouring cells share a
\* face), listed in the reference order or turned by a quarter about the
\* column, with its vertex ids as they are (fold 0) or taken modulo fold,
\* which makes vertices of the cell coincide.
Turns == { << 0, 1, 2, 3, 4, 5, 6, 7 >>, << 1, 2, 3, 0, 5, 6, 7, 4 >> }

Folds == {0} \cup 2..MaxFold

Hexahedron(c, turn, fold) ==
    [v \in 1..HexaVerts |->
        LET id == 4 * c + turn[v]
        IN  IF fold = 0 THEN id ELSE id % fold]

Hexahedra ==
    { Hexahedron(c, turn, fold) : c \in 0..(MaxCubes - 1), turn \in Turns, fold \in Folds }

\* the flat list of the vertex ids of the hexahedra hs
Flatten(hs) ==
    [p \in 1..(HexaVerts * Len(hs)) |->
        hs[((p - 1) \div HexaVerts) + 1][((p - 1) % HexaVerts) + 1]]

\* what the three outputs may hold when the function is called
Stale == { << >>, << << 0, 0, 0, 0 >> >> }

\* no call of voxelize is made
VoxelizeIdle ==
    /\ variant = "none"
    /\ bbox_delta = << 0, 0, 0 >>
    /\ max_voxels_per_side = 0
    /\ len = [num |-> 0, den |-> 0]
    /\ dim = << 0, 0, 0 >>
    /\ size = 0
    /\ allocated = FALSE
    /\ voxels = << >>
    /\ todo = {}
    /\ flood_seed = -1
    /\ q = << >>
    /\ assert_ok = TRUE
    /\ cur = -1
    /\ off = 0
    /\ positive = FALSE
    /\ negative = FALSE
    /\ zero = FALSE
    /\ samples = NoSamples
    /\ log = << >>
    /\ writes = << >>
    /\ pushed = << >>
    /\ pc = "idle"

HexInit ==
    /\ VoxelizeIdle
    /\ hexa \in { Flatten(hs) : hs \in UNION { [1..n -> Hexahedra] : n \in 0..MaxHexa } }
    /\ faces \in Stale
    /\ polys = faces
    /\ polys_face_winding = [p \in 1..Len(faces) |-> << FALSE >>]
    /\ f_map = << >>
    /\ hid = 0
    /\ face_i = 0
    /\ p_faces = << >>
    /\ p_winding = << >>
    /\ hpc = "call"

\* faces.clear(); polys.clear(); polys_face_winding.clear();
HexClear ==
    /\ hpc = "call"
    /\ faces' = << >>
    /\ polys' = << >>
    /\ polys_face_winding' = << >>
    /\ f_map' = << >>
    /\ hid' = 0
    /\ hpc' = "outer"
    /\ UNCHANGED << hexa, face_i, p_faces, p_winding >>
    /\ UNCHANGED voxelize_vars

\* for(uint hid=0; hid<n_hexa; ++hid): the body is entered
HexaBegin ==
    /\ hpc = "outer"
    /\ hid < n_hexa
    /\ p_faces' = << >>
    /\ p_winding' = << >>
    /\ face_i' = 0
    /\ hpc' = "inner"
    /\ UNCHANGED << hexa, faces, polys, polys_face_winding, f_map, hid >>
    /\ UNCHANGED voxelize_vars

\* mutant: the face is looked up as it is listed, not sorted
LookupKeyMut(f) == f

\* the key under which face f is looked up and stored in f_map
LookupKey(f) == Sorted(f)

\* if (query == f_map.end()): the face is new
FaceFresh ==
    /\ hpc = "inner"
    /\ face_i < HexaFaces
    /\ LET f        == FaceVerts(hid, face_i)
           sorted_f == LookupKey(f)
           fresh_id == Cardinality(DOMAIN f_map)
       IN  /\ sorted_f \notin DOMAIN f_map
           /\ f_map' = [key \in DOMAIN f_map \cup {sorted_f} |->
                           IF key = sorted_f THEN fresh_id ELSE f_map[key]]
           /\ faces' = Append(faces, f)
           /\ p_faces' = Append(p_faces, fresh_id)
           /\ p_winding' = Append(p_winding, TRUE)
    /\ face_i' = face_i + 1
    /\ UNCHANGED << hexa, polys, polys_face_winding, hid, hpc >>
    /\ UNCHANGED voxelize_vars

\* else: the face is already in f_map
FaceKnown ==
    /\ hpc = "inner"
    /\ face_i < HexaFaces
    /\ LET f        == FaceVerts(hid, face_i)
           sorted_f == LookupKey(f)
       IN  /\ sorted_f \in DOMAIN f_map
           /\ p_faces' = Append(p_faces, f_map[sorted_f])
           /\ p_winding' = Append(p_winding, FALSE)
    /\ face_i' = face_i + 1
    /\ UNCHANGED << hexa, faces, polys, polys_face_winding, f_map, hid, hpc >>
    /\ UNCHANGED voxelize_vars

\* polys.push_back(p_faces); polys_face_winding.push_back(p_winding); ++hid
HexaEnd ==
    /\ hpc = "inner"
    /\ face_i >= HexaFaces
    /\ polys' = Append(polys, p_faces)
    /\ polys_face_winding' = Append(polys_face_winding, p_winding)
    /\ hid' = hid + 1
    /\ hpc' = "outer"
    /\ UNCHANGED << hexa, faces, f_map, face_i, p_faces, p_winding >>
    /\ UNCHANGED voxelize_vars

\* the loop over the hexahedra is left and the function returns
HexReturn ==
    /\ hpc = "outer"
    /\ hid >= n_hexa
    /\ hpc' = "done"
    /\ UNCHANGED << hexa, faces, polys, polys_face_winding, f_map, hid, face_i,
                    p_faces, p_winding >>
    /\ UNCHANGED voxelize_vars

HexNext ==
    \/ HexClear
    \/ HexaBegin
    \/ FaceFresh
    \/ FaceKnown
    \/ HexaEnd
    \/ HexReturn

HexSpec == HexInit /\ [][HexNext]_vars

(***************************************************************************)
(* Vocabulary of the properties.                                           *)
(***************************************************************************)
Abs(x) == IF x < 0 THEN -x ELSE x

\* the (i,j,k) triple of a voxel of the grid
Coord(v) == deserialize_3D_index(v, dim[2], dim[3])

\* a and b share a face: they differ by one in exactly one coordinate
FaceAdjacent(a, b) ==
    Abs(Coord(a)[1] - Coord(b)[1]) + Abs(Coord(a)[2] - Coord(b)[2])
        + Abs(Coord(a)[3] - Coord(b)[3]) = 1

\* v lies on the shell i==0 or j==0 or k==0
OnShell(v) == \E a \in 1..3 : Coord(v)[a] = 0

Tagged(t) == {v \in Voxels : voxels[v] = t}

\* the voxels a path of face-adjacent non-boundary voxels joins to a voxel of S
RECURSIVE Grow(_)
Grow(S) ==
    LET N == S \cup {b \in Voxels : /\ voxels[b] # VOXEL_BOUNDARY
                                   /\ \E a \in S : FaceAdjacent(a, b)}
    IN  IF N = S THEN S ELSE Grow(N)

ReachableFrom(s) == Grow({s})

\* the shell voxels the boundary pass did not tag BOUNDARY
SeedVoxels == {v \in Voxels : OnShell(v) /\ voxels[v] # VOXEL_BOUNDARY}

Classified == {VOXEL_BOUNDARY, VOXEL_INSIDE, VOXEL_OUTSIDE}

(***************************************************************************)
(* C1                                                                      *)
(***************************************************************************)
\* C1: when either voxelize completes, every linear index in [0, size) holds
\* BOUNDARY, INSIDE or OUTSIDE; no voxel is UNKNOWN (or was left unwritten).
C1_AllClassified ==
    pc = "done" => \A v \in Voxels : voxels[v] \in Classified

\* a completed mesh run whose grid shows all three tags
C1_Witness ==
    /\ pc = "done"
    /\ variant = "mesh"
    /\ \A t \in Classified : Tagged(t) # {}

(***************************************************************************)
(* C2                                                                      *)
(***************************************************************************)
\* the state in which the flood-fill loop has just terminated
FloodTerminated == pc = "flood" /\ q = << >>

\* a step taken after the boundary pass keeps the set of BOUNDARY voxels
BoundaryKept ==
    pc \in {"seedtest", "flood", "residual"} =>
        (\A v \in Voxels : (voxels[v] = VOXEL_BOUNDARY) <=> (voxels'[v] = VOXEL_BOUNDARY))

\* C2: when the flood-fill that started from flood_seed terminates, the voxels
\* tagged OUTSIDE are exactly those a path of face-adjacent non-boundary voxels
\* joins to the seed; and from the end of the boundary pass on, the voxels
\* tagged BOUNDARY stay the same (none is re-tagged, none is added).
C2_FloodExact ==
    /\ [](FloodTerminated => Tagged(VOXEL_OUTSIDE) = ReachableFrom(flood_seed))
    /\ [][BoundaryKept]_vars

\* a terminated flood that filled several voxels and was kept out of an
\* unknown voxel by boundary voxels
C2_Witness ==
    /\ FloodTerminated
    /\ Cardinality(Tagged(VOXEL_OUTSIDE)) >= 2
    /\ Tagged(VOXEL_BOUNDARY) # {}
    /\ Tagged(VOXEL_UNKNOWN) # {}

(***************************************************************************)
(* C3                                                                      *)
(***************************************************************************)
\* C3: if a seed voxel exists after the boundary pass, the flood-fill stage runs:
\* once the seed test is passed, the chosen seed is tagged OUTSIDE (it was
\* marked and pushed), whatever its index, index 0 included.
C3_SeedFlooded ==
    (variant = "mesh" /\ pc \in {"flood", "residual", "done"} /\ flood_seed # -1)
        => voxels[flood_seed] = VOXEL_OUTSIDE

(***************************************************************************)
(* C4                                                                      *)
(***************************************************************************)
Maximum(S) == CHOOSE x \in S : \A y \in S : y <= x

\* the seed left by the schedule that runs the work items in index order
SerialSeed == IF SeedVoxels = {} THEN -1 ELSE Maximum(SeedVoxels)

\* the classification array voxelize returns for the same boundary voxels under
\* the schedule that runs the work items in index order
SerialResult ==
    [v \in Voxels |->
        IF voxels[v] = VOXEL_BOUNDARY THEN VOXEL_BOUNDARY
        ELSE IF SeedTest(SerialSeed) /\ v \in ReachableFrom(SerialSeed)
             THEN VOXEL_OUTSIDE
             ELSE VOXEL_INSIDE]

\* C4: the final tag of each voxel does not depend on the schedule of the
\* parallel boundary pass: every run ends with the array of the run that
\* executes the work items in index order on the same mesh.
C4_ScheduleIndependent ==
    (variant = "mesh" /\ pc = "done") => voxels = SerialResult

(***************************************************************************)
(* C5                                                                      *)
(***************************************************************************)
\* C5: at the end of the parallel boundary pass, under every interleaving,
\* flood_seed is -1 or the index of a shell voxel tagged UNKNOWN, and it is -1
\* exactly when no shell voxel is non-boundary.
C5_SeedValid ==
    pc = "seedtest" =>
        /\ \/ flood_seed = -1
           \/ /\ flood_seed \in Voxels
              /\ OnShell(flood_seed)
              /\ voxels[flood_seed] = VOXEL_UNKNOWN
        /\ (flood_seed = -1) <=> (SeedVoxels = {})

\* the pass ended with a seed that is not the one of the index-order schedule
C5_Witness ==
    /\ pc = "seedtest"
    /\ flood_seed >= 0
    /\ \E v \in SeedVoxels : v > flood_seed

(***************************************************************************)
(* C6                                                                      *)
(***************************************************************************)
\* C6: if no seed exists after the boundary pass, the flood-fill is a no-op
\* (the loop is not entered, nothing is enqueued, no voxel is tagged OUTSIDE)
\* and on completion every voxel not tagged BOUNDARY is tagged INSIDE.
C6_NoSeedAllInside ==
    (variant = "mesh" /\ pc \in {"seedtest", "flood", "residual", "done"}
                      /\ flood_seed = -1)
        => /\ pc # "flood"
           /\ q = << >>
           /\ Tagged(VOXEL_OUTSIDE) = {}
           /\ pc = "done" =>
                 \A v \in Voxels : voxels[v] \in {VOXEL_BOUNDARY, VOXEL_INSIDE}

\* a completed run without seed that has an interior voxel tagged INSIDE
C6_Witness ==
    /\ variant = "mesh"
    /\ pc = "done"
    /\ flood_seed = -1
    /\ Tagged(VOXEL_INSIDE) # {}

(***************************************************************************)
(* C7                                                                      *)
(***************************************************************************)
\* C7: on completion of mesh voxelize no voxel tagged OUTSIDE shares a face with
\* a voxel tagged INSIDE.
C7_OutsideInsideSeparated ==
    (variant = "mesh" /\ pc = "done") =>
        \A a \in Voxels : \A b \in Voxels :
            FaceAdjacent(a, b) =>
                ~(voxels[a] = VOXEL_OUTSIDE /\ voxels[b] = VOXEL_INSIDE)

\* a completed run with an OUTSIDE region of several voxels and an INSIDE voxel
C7_Witness ==
    /\ variant = "mesh"
    /\ pc = "done"
    /\ Cardinality(Tagged(VOXEL_OUTSIDE)) >= 2
    /\ Tagged(VOXEL_INSIDE) # {}

(***************************************************************************)
(* C8                                                                      *)
(***************************************************************************)
\* the arguments are a configuration error: resolution 0, or a bounding volume
\* of zero extent
ConfigError == max_voxels_per_side = 0 \/ max_entry(bbox_delta) = 0

\* C8: a configuration error is rejected before any allocation: the
\* classification buffer is never allocated and no classification step runs.
C8_RejectedBeforeAllocation ==
    ConfigError => (~allocated /\ pc = "start")

(***************************************************************************)
(* C9                                                                      *)
(***************************************************************************)
\* the seed test failed and the flood-fill was skipped (flood_seed keeps the
\* value the boundary pass left)
FloodWasSkipped == flood_seed <= 0

\* C9: when mesh voxelize skipped the flood-fill, the caller is told: what
\* voxelize reports besides the grid (a status, a return value, a log) is not
\* what it reports when the flood-fill ran.
C9_MissingSeedSurfaced ==
    (variant = "mesh" /\ pc = "done") => ((log # << >>) <=> FloodWasSkipped)

(***************************************************************************)
(* C10                                                                     *)
(***************************************************************************)
\* the work item of voxel cur has written its tag
ItemWritten == variant = "implicit" /\ cur # -1 /\ cur \notin todo

\* the rule of the claim: all 8 strictly positive, all 8 strictly negative, other
AllCornersRule ==
    /\ (voxels[cur] = VOXEL_OUTSIDE) <=> (samples["pos"] = NCorners)
    /\ (voxels[cur] = VOXEL_INSIDE) <=> (samples["neg"] = NCorners)
    /\ (voxels[cur] = VOXEL_BOUNDARY) <=>
          (samples["pos"] # NCorners /\ samples["neg"] # NCorners)

Axis(a) == IF dim[a] <= 0 THEN {} ELSE 0 .. (dim[a] - 1)

\* i*(dim_y*dim_z) + j*dim_z + k for the grid of the call
EncodeIndex(ijk) == serialize_3D_index(ijk[1], ijk[2], ijk[3], dim[2], dim[3])

\* C11: once the grid is set up, decoding with (dim_y, dim_z) as the code does
\* and encoding with i*(dim_y*dim_z) + j*dim_z + k are inverse bijections between
\* [0, size) and the triples of the grid: every index decodes to a triple inside
\* the grid that encodes back to it, and every triple of the grid encodes to an
\* index below size that decodes back to it.
C11_IndexBijection ==
    allocated =>
        /\ \A n \in Voxels :
              /\ \A a \in 1..3 : DecodeIndex(n)[a] \in Axis(a)
              /\ EncodeIndex(DecodeIndex(n)) = n
        /\ \A i \in Axis(1) : \A j \in Axis(2) : \A k \in Axis(3) :
              /\ EncodeIndex(<< i, j, k >>) \in Voxels
              /\ DecodeIndex(EncodeIndex(<< i, j, k >>)) = << i, j, k >>

\* a grid whose three counts are not all equal, decoded by the pass and the flood
C11_Witness ==
    /\ pc = "done"
    /\ size >= 4
    /\ dim[1] # dim[2]
    /\ Len(pushed) >= 2

\* the work items that have run and have written flood_seed: during the pass a
\* voxel is tagged UNKNOWN exactly when its work item found boundary false
SeedWriters == {v \in Voxels \ todo : voxels[v] = VOXEL_UNKNOWN /\ OnShell(v)}

\* C12: during the parallel boundary pass no variable other than the entries of
\* the classification buffer is written by two different work items: at most one
\* work item writes flood_seed.
C12_NoSharedWrites ==
    (variant = "mesh" /\ pc = "pass") => Cardinality(SeedWriters) <= 1

\* the parallel pass of either variant has returned
PassReturned ==
    \/ variant = "mesh" /\ pc \in {"seedtest", "flood", "residual", "done"}
    \/ variant = "implicit" /\ pc = "done"

\* C13: in the parallel pass of either variant, entry v of the classification
\* buffer is written by no work item other than the one of index v, and by that
\* one once: it is unwritten while that work item has not run and written once
\* as soon as it has, in every interleaving; when the pass has returned every
\* entry has been written exactly once.
C13_WrittenOnce ==
    /\ allocated =>
          \A v \in Voxels : writes[v] = IF v \in todo THEN << >> ELSE << v >>
    /\ PassReturned => \A v \in Voxels : writes[v] = << v >>

\* a pass over several voxels that has returned with every entry written
C13_Witness ==
    /\ PassReturned
    /\ size >= 2
    /\ \A v \in Voxels : Len(writes[v]) = 1

\* C14: when the volume has a positive extent along its longest axis and
\* max_voxels_per_side >= 1, the three voxel counts computed by the grid setup
\* are all >= 1, also when the extent along a shorter axis is zero.
C14_DimsPositive ==
    (allocated /\ max_voxels_per_side >= 1 /\ max_entry(bbox_delta) > 0)
        => \A a \in 1..3 : dim[a] >= 1

\* C15: a failure in the narrow phase of a work item (a candidate id without an
\* item, an item that is not a triangle) never breaks off the boundary pass of
\* the mesh variant: voxelize is never left with work items that have not run.
C15_FailureContained ==
    variant = "mesh" => ~(pc = "aborted" /\ todo # {})

(***************************************************************************)
(* Order of the phases of the mesh variant, flood-fill queue.              *)
(***************************************************************************)
\* the mesh variant is past its parallel pass
AfterPass == variant = "mesh" /\ pc \in {"seedtest", "flood", "residual", "done"}

\* every work item has written the tag of its voxel
AllTagged == todo = {} /\ \A v \in Voxels : voxels[v] # UNINIT /\ writes[v] # << >>

\* flood_seed is not written any more
SeedFinal == AfterPass => flood_seed' = flood_seed

\* C16: the seed test and every step of the flood-fill (marking the seed, push,
\* pop, reading a neighbour's tag) happen only when every work item of the
\* boundary pass has run and written its voxel's tag, and from the seed test on
\* flood_seed keeps the value the last work item left.
C16_PassBeforeFlood ==
    /\ [](AfterPass => AllTagged)
    /\ [][SeedFinal]_vars

\* the flood-fill has pushed neighbours of the seed on a grid of several voxels
C16_Witness ==
    /\ AfterPass
    /\ size >= 4
    /\ Len(pushed) >= 2

\* the change of the tag of voxel v in a step after the boundary pass, if any,
\* is a promotion: UNKNOWN -> OUTSIDE by the flood-fill, UNKNOWN -> INSIDE by the
\* residual pass
Promotion(v) ==
    \/ voxels'[v] = voxels[v]
    \/ /\ voxels[v] = VOXEL_UNKNOWN
       /\ \/ pc \in {"seedtest", "flood"} /\ voxels'[v] = VOXEL_OUTSIDE
          \/ pc = "residual" /\ voxels'[v] = VOXEL_INSIDE

OnlyPromotions == AfterPass => \A v \in Voxels : Promotion(v)

\* C17: after the boundary pass the only tag changes are UNKNOWN -> OUTSIDE
\* (flood-fill) and UNKNOWN -> INSIDE (residual pass): a BOUNDARY, OUTSIDE or
\* INSIDE voxel keeps its tag, so a voxel leaves UNKNOWN at most once.
C17_OnlyPromotions == [][OnlyPromotions]_vars

\* a call that ended with voxels of the three final tags
C17_Witness ==
    /\ variant = "mesh"
    /\ pc = "done"
    /\ Tagged(VOXEL_OUTSIDE) # {}
    /\ Tagged(VOXEL_INSIDE) # {}
    /\ Tagged(VOXEL_BOUNDARY) # {}

\* no value occurs twice in the sequence s
NoDuplicates(s) == \A i \in 1..Len(s) : \A j \in 1..Len(s) : i # j => s[i] # s[j]

\* C18: during and after the flood-fill the queue never holds a voxel index
\* twice, no index is given to q.push twice, every queued index was pushed, and
\* the number of pushes is at most the number of voxels of the grid.
C18_PushedOnce ==
    variant = "mesh" =>
        /\ NoDuplicates(q)
        /\ NoDuplicates(pushed)
        /\ \A i \in 1..Len(q) : \E j \in 1..Len(pushed) : pushed[j] = q[i]
        /\ \A j \in 1..Len(pushed) : pushed[j] \in Voxels
        /\ Len(pushed) <= size

\* the queue holds several voxels at once during a flood-fill
C18_Witness ==
    /\ pc = "flood"
    /\ Len(q) >= 2
    /\ Len(pushed) >= 4

\* C19: in the mesh variant, whatever the boundary pass left, the flood-fill
\* loop ends with an empty queue, the residual pass runs and voxelize reaches
\* its end.
C19_FloodTerminates == AfterPass ~> (pc = "done" /\ q = << >>)

\* a call that has ended after a flood-fill of several iterations
C19_Witness ==
    /\ variant = "mesh"
    /\ pc = "done"
    /\ q = << >>
    /\ Len(pushed) >= 4

\* C20: the assert of the flood-fill loop never fails: during the flood-fill
\* every index in the queue is tagged OUTSIDE, so each popped index is.
C20_AssertHolds ==
    /\ assert_ok
    /\ pc = "flood" => \A i \in 1..Len(q) : voxels[q[i]] = VOXEL_OUTSIDE

\* the loop has popped and asserted indices and still holds others
C20_Witness ==
    /\ pc = "flood"
    /\ Len(pushed) >= 3
    /\ Len(q) >= 1
    /\ Len(q) < Len(pushed)

(***************************************************************************)
(* Neighbours visited by the flood-fill.                                   *)
(***************************************************************************)
\* the neighbour indices the iteration that pops the front of the queue visits
NextVisited == Neighbours(DecodeIndex(Head(q)))

\* C21: for every voxel the flood-fill pops, each neighbour index whose tag the
\* iteration reads or writes is an index of the grid, below dim_x*dim_y*dim_z,
\* and differs from the popped voxel by one in exactly one of i, j, k: no
\* neighbour beyond coordinate 0 or dim-1 of an axis is accessed.
C21_NeighboursInGrid ==
    (pc = "flood" /\ q # << >>) =>
        \A n \in 1..Len(NextVisited) :
            /\ NextVisited[n] \in Voxels
            /\ FaceAdjacent(Head(q), NextVisited[n])

\* after a first pop, the next voxel to pop lies at coordinate dim-1 of the x
\* axis and at coordinate 0 of the y axis and still has neighbours in the grid
C21_Witness ==
    /\ pc = "flood"
    /\ Len(pushed) >= 2
    /\ q # << >>
    /\ dim[1] >= 2
    /\ DecodeIndex(Head(q))[1] = dim[1] - 1
    /\ DecodeIndex(Head(q))[2] = 0
    /\ Len(NextVisited) >= 2

(***************************************************************************)
(* from_hexahedra_to_general_polyhedra: the outputs.                       *)
(***************************************************************************)
\* the face occurrences of the input: face fc of hexahedron h, in input order
Occurrences == (0 .. (n_hexa - 1)) \X (0 .. (HexaFaces - 1))

Earlier(o1, o2) == o1[1] < o2[1] \/ (o1[1] = o2[1] /\ o1[2] < o2[2])

\* the face id and the winding flag the outputs give to an occurrence
FaceId(o) == polys[o[1] + 1][o[2] + 1]

Winding(o) == polys_face_winding[o[1] + 1][o[2] + 1]

\* the two occurrences have the same 4 vertex ids, in any order
SameVerts(o1, o2) ==
    Sorted(FaceVerts(o1[1], o1[2])) = Sorted(FaceVerts(o2[1], o2[2]))

\* the set of the vertex ids of an occurrence
VertexSet(o) == { FaceVerts(o[1], o[2])[c] : c \in 1..4 }

\* the two occurrences have the same set of vertex ids
SameVertexSet(o1, o2) == VertexSet(o1) = VertexSet(o2)

\* the outputs have one poly of 6 face ids and 6 flags for each hexahedron
OutputShape ==
    /\ Len(polys) = n_hexa
    /\ Len(polys_face_winding) = n_hexa
    /\ \A h \in 1..n_hexa :
          /\ Len(polys[h]) = HexaFaces
          /\ Len(polys_face_winding[h]) = HexaFaces

\* what the function returns when two occurrences are the same face exactly if
\* Same holds of them: n polys of 6 ids and 6 flags, every id below
\* faces.size(), one entry of faces for each face, one id for all occurrences
\* of a face, and the flag true exactly for the first occurrence of a face
HexContract(Same(_, _)) ==
    /\ OutputShape
    /\ \A o \in Occurrences : FaceId(o) \in 0 .. (Len(faces) - 1)
    /\ \A id \in 0 .. (Len(faces) - 1) : \E o \in Occurrences : FaceId(o) = id
    /\ \A o1 \in Occurrences : \A o2 \in Occurrences :
          (FaceId(o1) = FaceId(o2)) <=> Same(o1, o2)
    /\ \A o \in Occurrences :
          Winding(o) <=> ~ \E e \in Occurrences : Earlier(e, o) /\ Same(e, o)

\* C22 as stated: when the function has returned, a face is a distinct vertex
\* set: there are n polys of 6 face ids and 6 flags, every id is below
\* faces.size(), faces has one entry per distinct vertex set of a hexahedron
\* face, and the flag is true exactly for the first occurrence of a vertex set.
C22_OnePerVertexSet == hpc = "done" => HexContract(SameVertexSet)

\* C22 as amended: the same with a face taken as its 4 vertex ids in any order
\* (the sorted 4-tuple): faces has one entry per distinct sorted 4-tuple, all
\* occurrences of it share one id, and the flag is true exactly for the first.
C22_OnePerSortedFace == hpc = "done" => HexContract(SameVerts)

\* the function has returned for two hexahedra that share a face which they
\* list in different orders: the first occurrence has the flag, the second not
C22_Witness ==
    /\ hpc = "done"
    /\ n_hexa >= 2
    /\ \E o1 \in Occurrences : \E o2 \in Occurrences :
          /\ o1[1] < o2[1]
          /\ SameVerts(o1, o2)
          /\ FaceVerts(o1[1], o1[2]) # FaceVerts(o2[1], o2[2])
          /\ Winding(o1)
          /\ ~Winding(o2)
          /\ FaceId(o1) = FaceId(o2)

====
